---------------------------- MODULE Spec2Model ----------------------------
(***************************************************************************)
(* A model of site-compare: main's pipeline (src/main.rs), compare_sites   *)
(* and render_report (src/report.rs).                                      *)
(*                                                                         *)
(* A String is a sequence of one-character strings, so that ordering,      *)
(* line splitting, trimming and slugify are computed and not assumed.      *)
(***************************************************************************)
EXTENDS Integers, Sequences, FiniteSets, TLC

VARIABLES
    pc,            \* main's position: the step that runs next, "done" or "failed"
    steps,         \* the steps that returned Ok so far, in order
    before_dir,    \* .compare/before on disk: path -> content
    after_dir,     \* .compare/after on disk
    before_site,   \* main's before_site: path -> content, or None
    after_site,    \* main's after_site
    comparison,    \* main's comparison (a Comparison), or None
    diffs,         \* render_report: path -> the TextDiff of each Changed path
    rendered,      \* render_report's locals once its loop and percent are done
    report,        \* main's report: the document render_report returned, or None
    report_file    \* .compare/report.html as written by this run, or None

vars == <<pc, steps, before_dir, after_dir, before_site, after_site,
          comparison, diffs, rendered, report, report_file>>

None == "None"

\* Content a build wrote and Prettier has not rewritten yet.
Raw == "Raw"

-----------------------------------------------------------------------------
(* Bounds of the model *)

\* Number of paths of PathList a tree may hold.
MaxPaths == 3

\* Longest content, in characters, of the single file of a one-file run.
MaxContentLen == 3

-----------------------------------------------------------------------------
(* Strings *)

\* The code point of each character of the model (Rust compares Strings by bytes).
Ord(c) ==
    CASE c = "\n" -> 10
      [] c = " "  -> 32
      [] c = "#"  -> 35
      [] c = "-"  -> 45
      [] c = "."  -> 46
      [] c = "/"  -> 47
      [] c = "A"  -> 65
      [] c = "a"  -> 97
      [] c = "b"  -> 98
      [] c = "c"  -> 99
      [] c = "d"  -> 100
      [] c = "f"  -> 102
      [] c = "i"  -> 105
      [] c = "x"  -> 120

\* s < t for Strings: Ord for String, as BTreeMap and BTreeSet order their keys.
RECURSIVE StrLess(_, _)
StrLess(s, t) ==
    IF t = <<>> THEN FALSE
    ELSE IF s = <<>> THEN TRUE
    ELSE IF Ord(Head(s)) # Ord(Head(t)) THEN Ord(Head(s)) < Ord(Head(t))
    ELSE StrLess(Tail(s), Tail(t))

\* Mutant of BTreeIter: the order of a container that does not sort its keys.
RECURSIVE UnsortedIter(_)
UnsortedIter(S) ==
    IF S = {} THEN <<>>
    ELSE LET m == CHOOSE x \in S : \A y \in S \ {x} : StrLess(y, x)
         IN  <<m>> \o UnsortedIter(S \ {m})

\* The keys of a BTreeMap or the elements of a BTreeSet in iteration order.
RECURSIVE BTreeIter(_)
BTreeIter(S) ==
    IF S = {} THEN <<>>
    ELSE LET m == CHOOSE x \in S : \A y \in S \ {x} : StrLess(x, y)
         IN  <<m>> \o BTreeIter(S \ {m})

\* Every string over alphabet of length at most n.
RECURSIVE StringsUpTo(_, _)
StringsUpTo(alphabet, n) ==
    IF n = 0 THEN {<<>>}
    ELSE LET shorter == StringsUpTo(alphabet, n - 1)
         IN  shorter \cup {<<c>> \o s : c \in alphabet, s \in {t \in shorter : Len(t) = n - 1}}

Range(f) == {f[i] : i \in DOMAIN f}


-----------------------------------------------------------------------------
(* Text: lines, blank lines, slugs *)

Whitespace == {" ", "\n"}

\* TextDiff::from_lines tokenizes a text into its lines, each with its terminator;
\* a last line without a terminator is a line too, and the empty text has none.
RECURSIVE SplitLines(_, _)
SplitLines(text, line) ==
    IF text = <<>> THEN (IF line = <<>> THEN <<>> ELSE <<line>>)
    ELSE IF Head(text) = "\n" THEN <<Append(line, "\n")>> \o SplitLines(Tail(text), <<>>)
    ELSE SplitLines(Tail(text), Append(line, Head(text)))

from_lines(text) == SplitLines(text, <<>>)

RECURSIVE trim_start(_)
trim_start(s) ==
    IF s # <<>> /\ Head(s) \in Whitespace THEN trim_start(Tail(s)) ELSE s

RECURSIVE trim_end(_)
trim_end(s) ==
    IF s # <<>> /\ s[Len(s)] \in Whitespace THEN trim_end(SubSeq(s, 1, Len(s) - 1)) ELSE s

trim(s) == trim_end(trim_start(s))

\* Mutant of is_blank_line: the line is not trimmed before is_empty().
is_blank_line_untrimmed(line) == line = <<>>

\* report.rs:37, change.as_str().unwrap().trim().is_empty()
is_blank_line(line) == trim(line) = <<>>

Lower(c) == IF c = "A" THEN "a" ELSE c

IsAlnum(c) == c \in {"A", "a", "b", "c", "d", "f", "i", "x"}

\* slug::slugify: ASCII letters and digits are kept in lower case, every run of
\* other characters becomes one "-", and no "-" leads or trails the slug.
RECURSIVE SlugPush(_, _, _)
SlugPush(s, slug, prev_is_dash) ==
    IF s = <<>> THEN slug
    ELSE IF IsAlnum(Head(s))
         THEN SlugPush(Tail(s), Append(slug, Lower(Head(s))), FALSE)
    ELSE IF ~prev_is_dash
         THEN SlugPush(Tail(s), Append(slug, "-"), TRUE)
    ELSE SlugPush(Tail(s), slug, prev_is_dash)

slugify(s) ==
    LET slug == SlugPush(s, <<>>, TRUE)
    IN  IF slug # <<>> /\ slug[Len(slug)] = "-"
        THEN SubSeq(slug, 1, Len(slug) - 1)
        ELSE slug

Str_diff == <<"d", "i", "f", "f", "-">>

\* report.rs:183, format!("diff-{}", slugify(&file.path))
diff_id(path) == Str_diff \o slugify(path)

\* report.rs:170, format!("#diff-{}", slugify(&file.path))
diff_href(path) == <<"#">> \o Str_diff \o slugify(path)

-----------------------------------------------------------------------------
(* The line diff *)

Change(tag, value) == [tag |-> tag, value |-> value]

RECURSIVE LcsLen(_, _)
LcsLen(a, b) ==
    IF a = <<>> \/ b = <<>> THEN 0
    ELSE IF Head(a) = Head(b) THEN 1 + LcsLen(Tail(a), Tail(b))
    ELSE LET x == LcsLen(Tail(a), b)
             y == LcsLen(a, Tail(b))
         IN  IF x >= y THEN x ELSE y

\* Number of Insert and Delete changes of a shortest edit script.
EditCost(a, b) == Len(a) + Len(b) - 2 * LcsLen(a, b)

Prepend(c, S) == {<<c>> \o s : s \in S}

\* Every shortest edit script from old to new, as Myers' algorithm may find one.
RECURSIVE EditScripts(_, _)
EditScripts(old, new) ==
    IF old = <<>> /\ new = <<>> THEN {<<>>}
    ELSE
      (IF old # <<>> /\ new # <<>> /\ Head(old) = Head(new)
       THEN Prepend(Change("Equal", Head(old)), EditScripts(Tail(old), Tail(new)))
       ELSE {})
      \cup
      (IF old # <<>> /\ 1 + EditCost(Tail(old), new) = EditCost(old, new)
       THEN Prepend(Change("Delete", Head(old)), EditScripts(Tail(old), new))
       ELSE {})
      \cup
      (IF new # <<>> /\ 1 + EditCost(old, Tail(new)) = EditCost(old, new)
       THEN Prepend(Change("Insert", Head(new)), EditScripts(old, Tail(new)))
       ELSE {})

\* The changes of TextDiff::from_lines(before, after) in iter_all_changes order.
\* Which shortest script the library picks is its own business: any of them,
\* with the Delete lines of a replaced block before its Insert lines.
TextDiffs(before, after) ==
    {s \in EditScripts(from_lines(before), from_lines(after)) :
        \A i \in 1..(Len(s) - 1) : ~(s[i].tag = "Insert" /\ s[i + 1].tag = "Delete")}

-----------------------------------------------------------------------------
(* Maps and vectors *)

\* BTreeMap::new()
EmptyMap == [k \in {} |-> None]

\* BTreeMap::insert
MapInsert(m, k, v) == [x \in (DOMAIN m) \cup {k} |-> IF x = k THEN v ELSE m[x]]

\* Vec::push
VecPush(v, x) == Append(v, x)

-----------------------------------------------------------------------------
(* compare_sites, main.rs:204-242 *)

Added == [tag |-> "Added"]
Removed == [tag |-> "Removed"]
Changed(before, after) == [tag |-> "Changed", before |-> before, after |-> after]

\* Mutant of CompareBeforeEntry: the content comparison is inverted.
CompareBeforeEntry_inverted(acc, path, before_content, after) ==
    IF path \in DOMAIN after
    THEN IF after[path] = before_content
         THEN [acc EXCEPT !.differences =
                  MapInsert(@, path, Changed(before_content, after[path]))]
         ELSE [acc EXCEPT !.identical = @ \cup {path}]
    ELSE [acc EXCEPT !.differences = MapInsert(@, path, Removed)]

\* One turn of the loop over before.iter(), main.rs:211-230.
CompareBeforeEntry(acc, path, before_content, after) ==
    IF path \in DOMAIN after
    THEN IF after[path] # before_content
         THEN [acc EXCEPT !.differences =
                  MapInsert(@, path, Changed(before_content, after[path]))]
         ELSE [acc EXCEPT !.identical = @ \cup {path}]
    ELSE [acc EXCEPT !.differences = MapInsert(@, path, Removed)]

\* Mutant of CompareAfterKey: the contains_key test is missing.
CompareAfterKey_unchecked(acc, path, before) ==
    [acc EXCEPT !.differences = MapInsert(@, path, Added)]

\* One turn of the loop over after.keys(), main.rs:232-236.
CompareAfterKey(acc, path, before) ==
    IF path \notin DOMAIN before
    THEN [acc EXCEPT !.differences = MapInsert(@, path, Added)]
    ELSE acc

RECURSIVE CompareBeforeLoop(_, _, _, _)
CompareBeforeLoop(acc, keys, before, after) ==
    IF keys = <<>> THEN acc
    ELSE CompareBeforeLoop(CompareBeforeEntry(acc, Head(keys), before[Head(keys)], after),
                           Tail(keys), before, after)

RECURSIVE CompareAfterLoop(_, _, _)
CompareAfterLoop(acc, keys, before) ==
    IF keys = <<>> THEN acc
    ELSE CompareAfterLoop(CompareAfterKey(acc, Head(keys), before), Tail(keys), before)

compare_sites(before, after) ==
    LET start == [identical |-> {}, differences |-> EmptyMap]
        first == CompareBeforeLoop(start, BTreeIter(DOMAIN before), before, after)
    IN  CompareAfterLoop(first, BTreeIter(DOMAIN after), before)

-----------------------------------------------------------------------------
(* render_report, report.rs:17-199 *)

\* Mutant of WalkChange: a blank Delete line is counted like any other.
WalkChange_counts_blank(acc, change) ==
    CASE change.tag = "Insert" ->
           [acc EXCEPT !.lines_added = @ + 1,
                       !.lines = Append(@, [sign |-> "+", class |-> "diff-line diff-add",
                                            text |-> change.value])]
      [] change.tag = "Delete" ->
           [acc EXCEPT !.lines_removed = @ + 1,
                       !.lines = Append(@, [sign |-> "-", class |-> "diff-line diff-remove",
                                            text |-> change.value])]
      [] change.tag = "Equal" ->
           [acc EXCEPT !.lines = Append(@, [sign |-> " ", class |-> None,
                                            text |-> change.value])]

\* One turn of the loop over diff.iter_all_changes(), report.rs:36-60.
WalkChange(acc, change) ==
    LET is_blank == is_blank_line(change.value)
    IN  CASE change.tag = "Insert" ->
               [acc EXCEPT !.lines_added = @ + 1,
                           !.lines = Append(@, [sign |-> "+", class |-> "diff-line diff-add",
                                                text |-> change.value])]
          [] change.tag = "Delete" ->
               IF is_blank
               THEN [acc EXCEPT !.lines = Append(@, [sign |-> "~",
                                                     class |-> "diff-line diff-blank-line",
                                                     text |-> change.value])]
               ELSE [acc EXCEPT !.lines_removed = @ + 1,
                                !.lines = Append(@, [sign |-> "-",
                                                     class |-> "diff-line diff-remove",
                                                     text |-> change.value])]
          [] change.tag = "Equal" ->
               [acc EXCEPT !.lines = Append(@, [sign |-> " ", class |-> None,
                                                text |-> change.value])]

RECURSIVE WalkChanges(_, _)
WalkChanges(acc, changes) ==
    IF changes = <<>> THEN acc
    ELSE WalkChanges(WalkChange(acc, Head(changes)), Tail(changes))

\* report.rs:32-60: the counts and rendered lines of one diff.
WalkDiff(diff) ==
    WalkChanges([lines_added |-> 0, lines_removed |-> 0, lines |-> <<>>], diff)

\* Mutant of FileChanged: the `continue` after identical.insert is missing.
FileChanged_no_continue(r, path, w) ==
    [r EXCEPT !.identical = IF w.lines_added = 0 /\ w.lines_removed = 0
                            THEN @ \cup {path} ELSE @,
              !.total_lines_added = @ + w.lines_added,
              !.total_lines_removed = @ + w.lines_removed,
              !.changed = VecPush(@, [path |-> path,
                                      lines_added |-> w.lines_added,
                                      lines_removed |-> w.lines_removed,
                                      diff_lines |-> w.lines])]

\* report.rs:62-75: what becomes of a Changed path once its diff is walked.
FileChanged(r, path, w) ==
    IF w.lines_added = 0 /\ w.lines_removed = 0
    THEN [r EXCEPT !.identical = @ \cup {path}]
    ELSE [r EXCEPT !.total_lines_added = @ + w.lines_added,
                   !.total_lines_removed = @ + w.lines_removed,
                   !.changed = VecPush(@, [path |-> path,
                                           lines_added |-> w.lines_added,
                                           lines_removed |-> w.lines_removed,
                                           diff_lines |-> w.lines])]

\* One turn of the loop over comparison.differences, report.rs:26-79.
RenderEntry(r, path, difference, diff) ==
    CASE difference.tag = "Added" -> [r EXCEPT !.added = VecPush(@, path)]
      [] difference.tag = "Changed" -> FileChanged(r, path, WalkDiff(diff[path]))
      [] difference.tag = "Removed" -> [r EXCEPT !.removed = VecPush(@, path)]

RECURSIVE RenderLoop(_, _, _, _)
RenderLoop(r, keys, differences, diff) ==
    IF keys = <<>> THEN r
    ELSE RenderLoop(RenderEntry(r, Head(keys), differences[Head(keys)], diff),
                    Tail(keys), differences, diff)

\* identical_files as f64 / total_files as f64: a ratio, or NaN for 0.0 / 0.0
\* (identical_files <= total_files, so no other division by zero arises).
F64Div(n, d) == [nan |-> (d = 0), num |-> n, den |-> d]

\* Mutant of RoundPercent: the cast to u32 without round(), which truncates.
RoundPercent_truncated(q) ==
    IF q.nan THEN 0 ELSE (100 * q.num) \div q.den

\* (q * 100.0).round() as u32: round moves a half away from zero, and the
\* cast of NaN to u32 is 0.
RoundPercent(q) ==
    IF q.nan THEN 0 ELSE (200 * q.num + q.den) \div (2 * q.den)

\* report.rs:81-85
percent_similar(identical_files, total_files) ==
    RoundPercent(F64Div(identical_files, total_files))

\* report.rs:18-85: render_report's locals when the document is built.
RenderLocals(c, diff) ==
    LET r == RenderLoop([identical |-> c.identical, added |-> <<>>, changed |-> <<>>,
                         removed |-> <<>>, total_lines_added |-> 0,
                         total_lines_removed |-> 0],
                        BTreeIter(DOMAIN c.differences), c.differences, diff)
        identical_files == Cardinality(r.identical)
        total_files == identical_files + Len(r.added) + Len(r.changed) + Len(r.removed)
    IN  [identical |-> r.identical, added |-> r.added, changed |-> r.changed,
         removed |-> r.removed,
         total_lines_added |-> r.total_lines_added,
         total_lines_removed |-> r.total_lines_removed,
         total_files |-> total_files,
         quotient |-> F64Div(identical_files, total_files),
         percent_similar |-> percent_similar(identical_files, total_files)]

\* report.rs:87-196: the document, section by section.
Document(r) ==
    [percent_similar |-> r.percent_similar,
     identical |-> BTreeIter(r.identical),
     added |-> r.added,
     removed |-> r.removed,
     total_lines_added |-> r.total_lines_added,
     total_lines_removed |-> r.total_lines_removed,
     changed |-> [i \in 1..Len(r.changed) |->
                    [path |-> r.changed[i].path,
                     lines_added |-> r.changed[i].lines_added,
                     lines_removed |-> r.changed[i].lines_removed,
                     href |-> diff_href(r.changed[i].path)]],
     diffs |-> [i \in 1..Len(r.changed) |->
                    [id |-> diff_id(r.changed[i].path),
                     path |-> r.changed[i].path,
                     lines_added |-> r.changed[i].lines_added,
                     lines_removed |-> r.changed[i].lines_removed,
                     diff_lines |-> r.changed[i].diff_lines]]]

\* One TextDiff for each Changed path of the differences.
RECURSIVE DiffChoices(_, _)
DiffChoices(keys, differences) ==
    IF keys = <<>> THEN {EmptyMap}
    ELSE LET path == Head(keys)
             rest == DiffChoices(Tail(keys), differences)
         IN  IF differences[path].tag = "Changed"
             THEN {MapInsert(m, path, s) :
                     m \in rest,
                     s \in TextDiffs(differences[path].before, differences[path].after)}
             ELSE rest

-----------------------------------------------------------------------------
(* The inputs: what the two builds and Prettier leave on disk *)

\* Paths of files below an output directory, relative to it.
PathList == << <<"c">>, <<"a", "/", "b">>, <<"a", ".", "b">>, <<"A", ".", "b">> >>

Paths == {PathList[i] : i \in 1..MaxPaths}

\* The file of a one-file run.
LinePath == PathList[1]

\* Formatted contents of the files of a run with several files.
FileTexts == { <<"x", "\n">>, <<"x", "\n", "\n">> }

\* Formatted contents of the file of a one-file run.
Contents == StringsUpTo({"x", " ", "\n"}, MaxContentLen)

TextsFor(before, after) ==
    IF (DOMAIN before) \cup (DOMAIN after) \subseteq {LinePath}
    THEN Contents
    ELSE FileTexts

-----------------------------------------------------------------------------
(* collect_files, main.rs:171-202 *)

EndsWith(s, suffix) ==
    Len(s) >= Len(suffix) /\ SubSeq(s, Len(s) - Len(suffix) + 1, Len(s)) = suffix

\* main.rs:186
Skipped(filename) ==
    EndsWith(filename, <<".", "p", "n", "g">>) \/ EndsWith(filename, <<".", "i", "c", "o">>)

\* main.rs:193-194: strip_prefix(dir), then format!("/{path}")
SitePath(relative) == <<"/">> \o relative

collect_files(dir) ==
    LET kept == {k \in DOMAIN dir : ~Skipped(k)}
    IN  [p \in {SitePath(k) : k \in kept} |-> dir[Tail(p)]]

-----------------------------------------------------------------------------
(* main, main.rs:55-89 *)

Pipeline == <<"build_before", "build_after", "setup_prettier", "format_before",
              "format_after", "collect_before", "collect_after", "compare",
              "render", "write", "open">>

StepIndex(step) == CHOOSE i \in 1..Len(Pipeline) : Pipeline[i] = step

\* Mutant of NextPc: a step's Err is dropped instead of returned.
NextPc_ignoring_err(step, ok) ==
    IF StepIndex(step) = Len(Pipeline) THEN "done"
    ELSE Pipeline[StepIndex(step) + 1]

\* The `?` after each step: an Err ends main, an Ok moves on to the next step.
NextPc(step, ok) ==
    IF ~ok THEN "failed"
    ELSE IF StepIndex(step) = Len(Pipeline) THEN "done"
    ELSE Pipeline[StepIndex(step) + 1]

Finish(step, ok) ==
    /\ pc' = NextPc(step, ok)
    /\ steps' = IF ok THEN Append(steps, step) ELSE steps

Init ==
    /\ pc = "build_before"
    /\ steps = <<>>
    /\ before_dir = EmptyMap
    /\ after_dir = EmptyMap
    /\ before_site = None
    /\ after_site = None
    /\ comparison = None
    /\ diffs = None
    /\ rendered = None
    /\ report = None
    /\ report_file = None

\* main.rs:56
build_before_site ==
    /\ pc = "build_before"
    /\ \E ok \in BOOLEAN :
         /\ IF ok
            THEN \E P \in SUBSET Paths : before_dir' = [p \in P |-> Raw]
            ELSE before_dir' = before_dir
         /\ Finish("build_before", ok)
    /\ UNCHANGED <<after_dir, before_site, after_site, comparison, diffs, rendered,
                   report, report_file>>

\* main.rs:59
build_after_site ==
    /\ pc = "build_after"
    /\ \E ok \in BOOLEAN :
         /\ IF ok
            THEN \E P \in SUBSET Paths : after_dir' = [p \in P |-> Raw]
            ELSE after_dir' = after_dir
         /\ Finish("build_after", ok)
    /\ UNCHANGED <<before_dir, before_site, after_site, comparison, diffs, rendered,
                   report, report_file>>

\* main.rs:61
setup_prettier ==
    /\ pc = "setup_prettier"
    /\ \E ok \in BOOLEAN : Finish("setup_prettier", ok)
    /\ UNCHANGED <<before_dir, after_dir, before_site, after_site, comparison, diffs,
                   rendered, report, report_file>>

\* main.rs:63-67, first turn: prettier --write rewrites the files of before/
format_before ==
    /\ pc = "format_before"
    /\ \E ok \in BOOLEAN :
         /\ IF ok
            THEN \E t \in [DOMAIN before_dir -> TextsFor(before_dir, after_dir)] :
                    before_dir' = t
            ELSE before_dir' = before_dir
         /\ Finish("format_before", ok)
    /\ UNCHANGED <<after_dir, before_site, after_site, comparison, diffs, rendered,
                   report, report_file>>

\* main.rs:63-67, second turn
format_after ==
    /\ pc = "format_after"
    /\ \E ok \in BOOLEAN :
         /\ IF ok
            THEN \E t \in [DOMAIN after_dir -> TextsFor(before_dir, after_dir)] :
                    after_dir' = t
            ELSE after_dir' = after_dir
         /\ Finish("format_after", ok)
    /\ UNCHANGED <<before_dir, before_site, after_site, comparison, diffs, rendered,
                   report, report_file>>

\* main.rs:70
collect_before ==
    /\ pc = "collect_before"
    /\ \E ok \in BOOLEAN :
         /\ before_site' = IF ok THEN collect_files(before_dir) ELSE before_site
         /\ Finish("collect_before", ok)
    /\ UNCHANGED <<before_dir, after_dir, after_site, comparison, diffs, rendered,
                   report, report_file>>

\* main.rs:73
collect_after ==
    /\ pc = "collect_after"
    /\ \E ok \in BOOLEAN :
         /\ after_site' = IF ok THEN collect_files(after_dir) ELSE after_site
         /\ Finish("collect_after", ok)
    /\ UNCHANGED <<before_dir, after_dir, before_site, comparison, diffs, rendered,
                   report, report_file>>

\* main.rs:76: compare_sites never returns Err
compare ==
    /\ pc = "compare"
    /\ comparison' = compare_sites(before_site, after_site)
    /\ Finish("compare", TRUE)
    /\ UNCHANGED <<before_dir, after_dir, before_site, after_site, diffs, rendered,
                   report, report_file>>

\* main.rs:79: render_report, whose last line (report.rs:198) may return Err
render ==
    /\ pc = "render"
    /\ \E ok \in BOOLEAN :
         /\ IF ok
            THEN \E d \in DiffChoices(BTreeIter(DOMAIN comparison.differences),
                                      comparison.differences) :
                    /\ diffs' = d
                    /\ rendered' = RenderLocals(comparison, d)
                    /\ report' = Document(RenderLocals(comparison, d))
            ELSE UNCHANGED <<diffs, rendered, report>>
         /\ Finish("render", ok)
    /\ UNCHANGED <<before_dir, after_dir, before_site, after_site, comparison,
                   report_file>>

\* main.rs:81-82
write ==
    /\ pc = "write"
    /\ \E ok \in BOOLEAN :
         /\ report_file' = IF ok THEN report ELSE report_file
         /\ Finish("write", ok)
    /\ UNCHANGED <<before_dir, after_dir, before_site, after_site, comparison, diffs,
                   rendered, report>>

\* main.rs:85-89: with --open the report is opened, which may fail
open ==
    /\ pc = "open"
    /\ \E wanted \in BOOLEAN, ok \in BOOLEAN :
         IF wanted THEN Finish("open", ok) ELSE pc' = "done" /\ steps' = steps
    /\ UNCHANGED <<before_dir, after_dir, before_site, after_site, comparison, diffs,
                   rendered, report, report_file>>

Next ==
    \/ build_before_site
    \/ build_after_site
    \/ setup_prettier
    \/ format_before
    \/ format_after
    \/ collect_before
    \/ collect_after
    \/ compare
    \/ render
    \/ write
    \/ open

Spec == Init /\ [][Next]_vars

-----------------------------------------------------------------------------
(* Properties *)

\* The step returned Ok in this run.
Ran(step) == \E i \in 1..Len(steps) : steps[i] = step

AllPaths == (DOMAIN before_site) \cup (DOMAIN after_site)

TagOf(p) == IF p \in DOMAIN comparison.differences
            THEN comparison.differences[p].tag
            ELSE "none"

ChangedPaths == {p \in DOMAIN comparison.differences :
                    comparison.differences[p].tag = "Changed"}

\* The paths of a listing of ChangedFile or of document entries.
PathsOf(listing) == [i \in 1..Len(listing) |-> listing[i].path]

StrictlyAscending(listing) ==
    \A i \in 1..Len(listing) : \A j \in (i + 1)..Len(listing) :
        StrLess(listing[i], listing[j])

WhitespaceOnly(line) == \A i \in 1..Len(line) : line[i] \in Whitespace

Deletes(diff) == {i \in 1..Len(diff) : diff[i].tag = "Delete"}
Inserts(diff) == {i \in 1..Len(diff) : diff[i].tag = "Insert"}

\* C1: compare_sites puts every path of keys(B) \cup keys(A), and no other, into
\* exactly one class: Removed iff in B only, Added iff in A only, Changed iff in
\* both with different content (carrying B's and A's content), identical iff in
\* both with equal content; identical and the differences' keys are disjoint.
C1_Partition ==
    Ran("compare") =>
        /\ comparison.identical \cup (DOMAIN comparison.differences) = AllPaths
        /\ comparison.identical \cap (DOMAIN comparison.differences) = {}
        /\ \A p \in AllPaths :
             LET inB == p \in DOMAIN before_site
                 inA == p \in DOMAIN after_site
             IN  /\ (TagOf(p) = "Removed") <=> (inB /\ ~inA)
                 /\ (TagOf(p) = "Added") <=> (inA /\ ~inB)
                 /\ (TagOf(p) = "Changed") <=>
                        (inB /\ inA /\ before_site[p] # after_site[p])
                 /\ (TagOf(p) = "Changed") =>
                        /\ comparison.differences[p].before = before_site[p]
                        /\ comparison.differences[p].after = after_site[p]
                 /\ (p \in comparison.identical) <=>
                        (inB /\ inA /\ before_site[p] = after_site[p])

C1_Witness ==
    /\ Ran("compare")
    /\ \E p, q, r \in AllPaths :
         TagOf(p) = "Removed" /\ TagOf(q) = "Added" /\ TagOf(r) = "Changed"

\* C2: compare_sites(S, S) has identical = keys(S) and no differences.
C2_Reflexive ==
    (Ran("compare") /\ before_site = after_site) =>
        /\ comparison.identical = DOMAIN before_site
        /\ DOMAIN comparison.differences = {}

C2_Witness ==
    /\ Ran("compare")
    /\ before_site = after_site
    /\ Cardinality(DOMAIN before_site) >= 2

\* C3: a Changed path whose diff ends with lines_added = 0 and lines_removed = 0
\* is put into the identical set and is not in the changed list; every file of
\* the changed list has lines_added + lines_removed >= 1.
C3_Reclassified ==
    Ran("render") =>
        /\ \A p \in ChangedPaths :
             LET w == WalkDiff(diffs[p])
             IN  (w.lines_added = 0 /\ w.lines_removed = 0) =>
                    /\ p \in rendered.identical
                    /\ p \in Range(report.identical)
                    /\ p \notin Range(PathsOf(rendered.changed))
                    /\ p \notin Range(PathsOf(report.changed))
        /\ \A i \in 1..Len(rendered.changed) :
             rendered.changed[i].lines_added + rendered.changed[i].lines_removed >= 1

C3_Witness ==
    /\ Ran("render")
    /\ \E p \in ChangedPaths :
         /\ WalkDiff(diffs[p]).lines_added = 0
         /\ WalkDiff(diffs[p]).lines_removed = 0
         /\ p \in rendered.identical

\* C4: for every Changed path, lines_removed is the number of Delete lines that
\* are not whitespace-only, lines_added the number of Insert lines (blank or
\* not), and Equal lines change neither count.
C4_Counts ==
    Ran("render") =>
        /\ \A p \in ChangedPaths :
             LET d == diffs[p]
                 w == WalkDiff(d)
             IN  /\ w.lines_removed =
                        Cardinality({i \in Deletes(d) : ~WhitespaceOnly(d[i].value)})
                 /\ w.lines_added = Cardinality(Inserts(d))
        /\ \A i \in 1..Len(rendered.changed) :
             LET f == rendered.changed[i]
                 d == diffs[f.path]
             IN  /\ f.lines_removed =
                        Cardinality({k \in Deletes(d) : ~WhitespaceOnly(d[k].value)})
                 /\ f.lines_added = Cardinality(Inserts(d))

C4_Witness ==
    /\ Ran("render")
    /\ \E i \in 1..Len(rendered.changed) :
         LET d == diffs[rendered.changed[i].path]
         IN  /\ \E k \in Deletes(d) : WhitespaceOnly(d[k].value)
             /\ \E k \in Deletes(d) : ~WhitespaceOnly(d[k].value)
             /\ \E k \in Inserts(d) : WhitespaceOnly(d[k].value)

NonBlankLines(lines) == SelectSeq(lines, LAMBDA l : ~WhitespaceOnly(l))

\* new is old with some whitespace-only lines deleted and nothing else changed.
RECURSIVE BlankLinesDeleted(_, _)
BlankLinesDeleted(old, new) ==
    IF old = <<>> THEN new = <<>>
    ELSE \/ new # <<>> /\ Head(new) = Head(old) /\ BlankLinesDeleted(Tail(old), Tail(new))
         \/ WhitespaceOnly(Head(old)) /\ BlankLinesDeleted(Tail(old), new)

Reported_Identical(p) ==
    /\ p \in rendered.identical
    /\ p \in Range(report.identical)
    /\ p \notin Range(PathsOf(report.changed))

\* C5 as claimed: a path whose before and after content differ only by blank
\* (whitespace-only) lines inserted and/or deleted is reported identical, never
\* changed.
C5_BlankChurnIdentical ==
    Ran("render") =>
        \A p \in ChangedPaths :
            LET c == comparison.differences[p]
            IN  NonBlankLines(from_lines(c.before)) = NonBlankLines(from_lines(c.after))
                    => Reported_Identical(p)

\* C5 as amended: a path whose after content is its before content with only
\* blank (whitespace-only) lines deleted, and no line inserted, is reported
\* identical, never changed.
C5_BlankDeletionIdentical ==
    Ran("render") =>
        \A p \in ChangedPaths :
            LET c == comparison.differences[p]
            IN  BlankLinesDeleted(from_lines(c.before), from_lines(c.after))
                    => Reported_Identical(p)

C5_Witness ==
    /\ Ran("render")
    /\ \E p \in ChangedPaths :
         /\ BlankLinesDeleted(from_lines(comparison.differences[p].before),
                              from_lines(comparison.differences[p].after))
         /\ Len(from_lines(comparison.differences[p].after)) >= 1
         /\ Reported_Identical(p)

\* C6: with both snapshots empty (total file count 0) render_report does not
\* divide by the zero total: the case is guarded before identical / total.
C6_ZeroTotalGuarded ==
    (Ran("render") /\ rendered.total_files = 0) => ~rendered.quotient.nan

ReportTotal ==
    Len(report.identical) + Len(report.added) + Len(report.changed) + Len(report.removed)

\* C7: with at least one path, percent_similar is identical * 100 / total
\* rounded to the nearest integer, the counts taken after reclassification; it
\* lies in 0..100, is 100 when every path is identical and 0 when none is.
C7_Percent ==
    (Ran("render") /\ ReportTotal >= 1) =>
        LET n == Len(report.identical)
            t == ReportTotal
            e == report.percent_similar * t - 100 * n
        IN  /\ t = Cardinality(AllPaths)
            /\ 2 * e <= t
            /\ 2 * e >= -t
            /\ report.percent_similar \in 0..100
            /\ (n = t) => report.percent_similar = 100
            /\ (n = 0) => report.percent_similar = 0

C7_Witness ==
    /\ Ran("render")
    /\ ReportTotal = 3
    /\ Len(report.identical) = 2
    /\ report.percent_similar = 67
    /\ \E p \in ChangedPaths : p \in Range(report.identical)

\* C8: each of the four listings holds its paths in strictly ascending
\* lexicographic order without duplicates, reclassified identical paths
\* included, and the Diffs section lists the changed files in the order of the
\* Changed listing.
C8_Ordered ==
    Ran("render") =>
        /\ StrictlyAscending(report.identical)
        /\ StrictlyAscending(report.added)
        /\ StrictlyAscending(report.removed)
        /\ StrictlyAscending(PathsOf(report.changed))
        /\ PathsOf(report.diffs) = PathsOf(report.changed)

C8_Witness ==
    /\ Ran("render")
    /\ Len(report.changed) = 2
    /\ Len(report.diffs) = 2
    /\ \E p \in ChangedPaths : p \in Range(report.identical)

\* C9: main's steps run in the pipeline's order and a failed step ends the run
\* before any later step: compare_sites runs only after both collect_files
\* succeeded, and report.html is written only after render_report succeeded.
C9_Pipeline ==
    /\ Len(steps) <= Len(Pipeline)
    /\ \A i \in 1..Len(steps) : steps[i] = Pipeline[i]
    /\ pc \in {"failed", "done"} \/ pc = Pipeline[Len(steps) + 1]
    /\ Ran("compare") => (Ran("collect_before") /\ Ran("collect_after"))
    /\ Ran("write") => Ran("render")
    /\ Ran("write") \/ report_file = None

C9_Witness ==
    /\ pc = "failed"
    /\ Ran("compare")
    /\ ~Ran("render")
    /\ report_file = None

\* C10: for every changed file the 'diff' link targets "#diff-" + slugify(path)
\* and its block in the Diffs section has the id "diff-" + slugify(path); two
\* different changed paths of one report get different ids, so every link
\* targets the block of its own file.
C10_Anchors ==
    Ran("render") =>
        /\ \A i \in 1..Len(report.changed) :
             /\ report.changed[i].href = <<"#", "d", "i", "f", "f", "-">>
                                            \o slugify(report.changed[i].path)
             /\ report.diffs[i].id = <<"d", "i", "f", "f", "-">>
                                            \o slugify(report.diffs[i].path)
        /\ \A i, j \in 1..Len(report.diffs) :
             report.diffs[i].path # report.diffs[j].path
                 => report.diffs[i].id # report.diffs[j].id

=============================================================================
